---- MODULE Spec2Model ----
(***************************************************************************)
(* Scheduled-publication subsystem of social_media_assistant.py:           *)
(* the content library, its JSON persistence, the daily-recurring          *)
(* triggers of the `schedule` package, and the publish_post dispatcher.    *)
(*                                                                         *)
(* Python objects are modelled with a heap: objs is the sequence of all    *)
(* Content objects ever constructed (an object's id is its index),         *)
(* content_library holds ids, and a trigger (job) holds the id of the      *)
(* Content and the index of the ScheduledPost it was bound to, so a job    *)
(* keeps acting on an object that is no longer in the library.             *)
(* Time is in seconds since midnight of day 0.                             *)
(***************************************************************************)
EXTENDS Integers, Sequences, FiniteSets, TLC

VARIABLES now, objs, content_library, jobs, file, published, scheduler_alive,
          saved_library, last_op, caller

vars == <<now, objs, content_library, jobs, file, published, scheduler_alive,
          saved_library, last_op, caller>>

---------------------------------------------------------------------------
(* Bounds of the model *)
MaxDay == 1
MaxObjs == 2
MaxJobs == 2

---------------------------------------------------------------------------
(* Wall clock *)
Minute == 60
Hour == 60 * Minute
Day == 24 * Hour

\* seconds-of-day at which the clock is observed: 00:00:30 and 23:59:10
ClockTimes == {30, 23 * Hour + 59 * Minute + 10}
ClockPoints == {d * Day + s : d \in 0..MaxDay, s \in ClockTimes}

\* the timestamp a direct caller of schedule_post passes: the end of the horizon
DirectTime == MaxDay * Day + 23 * Hour + 59 * Minute + 30

DayOf(t) == t \div Day
TimeOfDay(t) == t % Day

SetMin(S) == CHOOSE x \in S : \A y \in S : x <= y

---------------------------------------------------------------------------
(* Inputs *)
\* the backing file content_library.json: absent, or holding a JSON document
NoFile == [exists |-> FALSE, doc |-> <<>>]
FileOf(doc) == [exists |-> TRUE, doc |-> doc]

\* titles are sequences of characters; Lower is str.lower() on this alphabet
Titles == {<<"N", "e">>, <<"N", "E">>, <<"o">>}
LowerChar(ch) == CASE ch = "N" -> "n"
                   [] ch = "E" -> "e"
                   [] ch = "O" -> "o"
                   [] OTHER -> ch
Lower(s) == [i \in 1..Len(s) |-> LowerChar(s[i])]

Languages == {"en", "ro"}
\* what the caller feeds process_url: url, language, and whether the AI calls succeed
ProcessInputs == {<<"u1", "en", TRUE>>}
platform_specs == {"x", "linkedin", "facebook"}
\* platforms typed at the menu and passed by a direct caller ("tiktok" is no key)
MenuPlatforms == {"x", "tiktok"}
DirectPlatforms == {"linkedin", "tiktok"}
\* hour and minute typed at the menu
MenuTimes == {<<0, 0>>, <<23, 59>>, <<24, 0>>, <<-1, 59>>, <<0, 60>>, <<23, -1>>}

---------------------------------------------------------------------------
(* External collaborators: extraction and generation are functions of the   *)
(* url; ai_ok = FALSE is a failed AI call (empty posts, no keywords).          *)
Urls == {"u1", "u2", "u3"}
extract_content(url) ==
    CASE url = "u1" -> [title |-> <<"N", "e">>, content |-> "text1"]
      [] url = "u2" -> [title |-> <<"N", "E">>, content |-> "text2"]
      [] OTHER      -> [title |-> <<"o">>, content |-> "text3"]

generate_platform_posts(content, title, language, ai_ok) ==
    [p \in platform_specs |-> IF ai_ok THEN <<p, content, language>> ELSE <<>>]

extract_keywords(content, ai_ok) == IF ai_ok THEN <<"k1", content>> ELSE <<>>

---------------------------------------------------------------------------
(* Data classes *)
\* variant: a new ScheduledPost starts as posted
ScheduledPostDone(platform, content, scheduled_time) ==
    [platform |-> platform, content |-> content,
     scheduled_time |-> scheduled_time, posted |-> TRUE]

ScheduledPost(platform, content, scheduled_time) ==
    [platform |-> platform, content |-> content,
     scheduled_time |-> scheduled_time, posted |-> FALSE]

Content(url, title, summary, platform_posts, keywords, language) ==
    [url |-> url, title |-> title, summary |-> summary,
     platform_posts |-> platform_posts, keywords |-> keywords,
     language |-> language, scheduled_posts |-> <<>>, posted |-> FALSE]

\* the library as values: the Content objects the list refers to, in order
LibraryOf(lib, heap) == [i \in 1..Len(lib) |-> heap[lib[i]]]
Library == LibraryOf(content_library, objs)

All(S) == \A b \in S : b
AllPosted(c) == All({c.scheduled_posts[k].posted : k \in 1..Len(c.scheduled_posts)})

---------------------------------------------------------------------------
(* is_duplicate *)
\* variant: titles compared as they are
is_duplicate_exact(library, title, language) ==
    \E i \in 1..Len(library) :
        /\ library[i].title = title
        /\ library[i].language = language

is_duplicate(library, title, language) ==
    \E i \in 1..Len(library) :
        /\ Lower(library[i].title) = Lower(title)
        /\ library[i].language = language

---------------------------------------------------------------------------
(* datetime conversions *)
\* datetime.now().replace(hour=h, minute=m): seconds of the clock are kept
ReplaceHM(t, h, m) == DayOf(t) * Day + h * Hour + m * Minute + (t % Minute)

\* strftime("%H:%M"): the seconds are dropped
StrfHM(t) == <<TimeOfDay(t) \div Hour, (TimeOfDay(t) % Hour) \div Minute>>

\* schedule's at("HH:MM"): a time of day with second 0
AtTime(hm) == hm[1] * Hour + hm[2] * Minute

\* variant: a job that has run comes back a week later
NextRunWeekly(at, t) == IF at > TimeOfDay(t) THEN DayOf(t) * Day + at
                        ELSE (DayOf(t) + 7) * Day + at

\* schedule's Job._schedule_next_run for every().day.at(at): the next
\* occurrence of the time of day strictly after t
NextRun(at, t) == IF at > TimeOfDay(t) THEN DayOf(t) * Day + at
                  ELSE (DayOf(t) + 1) * Day + at

\* variant: an ISO string cut at the minute
IsoFormatToMinute(t) == [date |-> DayOf(t), hh |-> TimeOfDay(t) \div Hour,
                         mm |-> (TimeOfDay(t) % Hour) \div Minute, ss |-> 0]

\* datetime.isoformat() / datetime.fromisoformat()
IsoFormat(t) == [date |-> DayOf(t), hh |-> TimeOfDay(t) \div Hour,
                 mm |-> (TimeOfDay(t) % Hour) \div Minute, ss |-> t % Minute]
FromIsoFormat(s) == s.date * Day + s.hh * Hour + s.mm * Minute + s.ss

---------------------------------------------------------------------------
(* save_library / load_library: the JSON document *)
PostToJson(post) ==
    [platform |-> post.platform, content |-> post.content,
     scheduled_time |-> IsoFormat(post.scheduled_time), posted |-> post.posted]

ContentToJson(c) ==
    [url |-> c.url, title |-> c.title, summary |-> c.summary,
     platform_posts |-> c.platform_posts, keywords |-> c.keywords,
     language |-> c.language,
     scheduled_posts |-> [k \in 1..Len(c.scheduled_posts) |-> PostToJson(c.scheduled_posts[k])],
     posted |-> c.posted]

save_library(library) == [i \in 1..Len(library) |-> ContentToJson(library[i])]

PostFromJson(j) ==
    [platform |-> j.platform, content |-> j.content,
     scheduled_time |-> FromIsoFormat(j.scheduled_time), posted |-> j.posted]

ContentFromJson(item) ==
    [url |-> item.url, title |-> item.title, summary |-> item.summary,
     platform_posts |-> item.platform_posts, keywords |-> item.keywords,
     language |-> item.language,
     scheduled_posts |-> [k \in 1..Len(item.scheduled_posts) |-> PostFromJson(item.scheduled_posts[k])],
     posted |-> item.posted]

---------------------------------------------------------------------------
(* caller is where the caller thread is: between operations, or inside      *)
(* load_library (with the document read and the index of the next item),    *)
(* or inside delete_json_and_clear.                                         *)
Idle == [pc |-> "idle", doc |-> <<>>, next |-> 0]

(* History variables: last_op is the last operation with the inputs it     *)
(* read and what run_pending fired; saved_library is the in-memory library  *)
(* as it was when the backing file was last written.                        *)
Op(name) == [op |-> name, rec |-> 0, platform |-> "", hour |-> 0, minute |-> 0,
             ok |-> TRUE, fired |-> <<>>]

---------------------------------------------------------------------------
(* schedule_post: the new heap and the new job list *)
PublishCount(pub, ref) == IF ref \in DOMAIN pub THEN pub[ref] ELSE 0

\* schedule.every().day.at(scheduled_time.strftime("%H:%M")).do(publish_post, content, post)
ArmJob(c, k, scheduled_time, t) ==
    [content |-> c, post |-> k, at |-> AtTime(StrfHM(scheduled_time)),
     next_run |-> NextRun(AtTime(StrfHM(scheduled_time)), t)]

\* variant: no platform check, the text looked up with a default
schedule_post_unchecked(heap, js, c, platform, scheduled_time, t) ==
    LET text == IF platform \in DOMAIN heap[c].platform_posts
                THEN heap[c].platform_posts[platform] ELSE <<>>
        posts == Append(heap[c].scheduled_posts, ScheduledPost(platform, text, scheduled_time))
    IN  [objs |-> [heap EXCEPT ![c].scheduled_posts = posts],
         jobs |-> Append(js, ArmJob(c, Len(posts), scheduled_time, t)),
         ok |-> TRUE]

schedule_post(heap, js, c, platform, scheduled_time, t) ==
    IF platform \notin DOMAIN heap[c].platform_posts
    THEN [objs |-> heap, jobs |-> js, ok |-> FALSE]
    ELSE LET post == ScheduledPost(platform, heap[c].platform_posts[platform], scheduled_time)
             posts == Append(heap[c].scheduled_posts, post)
         IN  [objs |-> [heap EXCEPT ![c].scheduled_posts = posts],
              jobs |-> Append(js, ArmJob(c, Len(posts), scheduled_time, t)),
              ok |-> TRUE]

---------------------------------------------------------------------------
(* publish_post: st is [objs, file, published, saved]; outcome is what the  *)
(* environment does to this dispatch: "ok", "publish_fails" (the publish    *)
(* step raises before the flag is set) or "save_fails" (save_library        *)
(* raises on opening the file).  Every exception is caught inside.          *)
Outcomes == {"ok", "publish_fails", "save_fails"}

\* variant: no try/except, a failure leaves publish_post as an exception
publish_post_uncaught(st, lib, c, k, outcome) ==
    IF outcome = "publish_fails"
    THEN [objs |-> st.objs, file |-> st.file, published |-> st.published,
          saved |-> st.saved, raised |-> TRUE]
    ELSE LET ref == <<c, k>>
             pub == [r \in (DOMAIN st.published) \cup {ref} |->
                        IF r = ref THEN PublishCount(st.published, ref) + 1
                        ELSE st.published[r]]
             h1 == [st.objs EXCEPT ![c].scheduled_posts[k].posted = TRUE]
             h2 == IF AllPosted(h1[c]) THEN [h1 EXCEPT ![c].posted = TRUE] ELSE h1
         IN  [objs |-> h2,
              file |-> IF outcome = "save_fails" THEN st.file
                       ELSE FileOf(save_library(LibraryOf(lib, h2))),
              saved |-> IF outcome = "save_fails" THEN st.saved ELSE LibraryOf(lib, h2),
              published |-> pub, raised |-> outcome = "save_fails"]

publish_post(st, lib, c, k, outcome) ==
    IF outcome = "publish_fails"
    THEN [objs |-> st.objs, file |-> st.file, published |-> st.published,
          saved |-> st.saved, raised |-> FALSE]
    ELSE LET ref == <<c, k>>
             pub == [r \in (DOMAIN st.published) \cup {ref} |->
                        IF r = ref THEN PublishCount(st.published, ref) + 1
                        ELSE st.published[r]]
             h1 == [st.objs EXCEPT ![c].scheduled_posts[k].posted = TRUE]
             h2 == IF AllPosted(h1[c]) THEN [h1 EXCEPT ![c].posted = TRUE] ELSE h1
         IN  [objs |-> h2,
              file |-> IF outcome = "save_fails" THEN st.file
                       ELSE FileOf(save_library(LibraryOf(lib, h2))),
              saved |-> IF outcome = "save_fails" THEN st.saved ELSE LibraryOf(lib, h2),
              published |-> pub, raised |-> FALSE]

---------------------------------------------------------------------------
(* schedule.run_pending(): the due jobs run in the order of next_run (the   *)
(* sort is stable); a job that returns is rescheduled for its next day; an  *)
(* exception leaving a job would end the scheduler thread.                  *)
DueJobs(js, t) == {i \in 1..Len(js) : js[i].next_run <= t}

FirstDue(js, S) ==
    CHOOSE i \in S : \A j \in S :
        \/ js[i].next_run < js[j].next_run
        \/ js[i].next_run = js[j].next_run /\ i <= j

\* one due job is run: the callback is called and, unless it raised, the job
\* is scheduled for its next day
RunJob(st, lib, i, outcome, t) ==
    LET j == st.jobs[i]
        r == publish_post(st, lib, j.content, j.post, outcome)
        ev == [content |-> j.content, post |-> j.post, outcome |-> outcome,
               posted_before |-> st.objs[j.content].scheduled_posts[j.post].posted,
               posted_after |-> r.objs[j.content].scheduled_posts[j.post].posted,
               rec_before |-> st.objs[j.content].posted,
               rec_after |-> r.objs[j.content].posted,
               file_after |-> r.file,
               library_after |-> LibraryOf(lib, r.objs)]
    IN  [objs |-> r.objs, file |-> r.file, published |-> r.published, saved |-> r.saved,
         jobs |-> IF r.raised THEN st.jobs
                  ELSE [st.jobs EXCEPT ![i].next_run = NextRun(j.at, t)],
         fired |-> Append(st.fired, ev), alive |-> ~r.raised]

\* the due jobs S are run in the order of their next_run; an exception that
\* leaves a callback ends the pass and the thread
RECURSIVE RunJobs(_, _, _, _, _)
RunJobs(st, lib, S, oc, t) ==
    IF S = {} \/ ~st.alive THEN st
    ELSE CHOOSE out \in UNION {{RunJobs(s2, lib, S \ {i}, oc, t) :
                                    s2 \in {RunJob(st, lib, i, oc[i], t)}} :
                                 i \in {FirstDue(st.jobs, S)}} : TRUE

\* variant: a pass runs only the first job that is due
run_pending_first(oc) ==
    RunJobs([objs |-> objs, file |-> file, published |-> published,
             saved |-> saved_library, jobs |-> jobs,
             fired |-> <<>>, alive |-> TRUE],
            content_library,
            IF DueJobs(jobs, now) = {} THEN {} ELSE {FirstDue(jobs, DueJobs(jobs, now))},
            oc, now)

run_pending(oc) ==
    RunJobs([objs |-> objs, file |-> file, published |-> published,
             saved |-> saved_library, jobs |-> jobs,
             fired |-> <<>>, alive |-> TRUE],
            content_library, DueJobs(jobs, now), oc, now)

---------------------------------------------------------------------------
(* load_library: the loaded objects and the jobs armed for them *)
\* variant: every unposted post is armed again, also one whose time has passed
RECURSIVE RearmUnposted(_, _, _, _)
RearmUnposted(c, posts, k, t) ==
    IF k > Len(posts) THEN <<>>
    ELSE (IF ~posts[k].posted
          THEN <<ArmJob(c, k, posts[k].scheduled_time, t)>> ELSE <<>>)
         \o RearmUnposted(c, posts, k + 1, t)

RECURSIVE RearmPosts(_, _, _, _)
RearmPosts(c, posts, k, t) ==
    IF k > Len(posts) THEN <<>>
    ELSE (IF ~posts[k].posted /\ posts[k].scheduled_time > t
          THEN <<ArmJob(c, k, posts[k].scheduled_time, t)>> ELSE <<>>)
         \o RearmPosts(c, posts, k + 1, t)

RECURSIVE LoadItems(_, _, _, _)
LoadItems(doc, i, base, t) ==
    IF i > Len(doc) THEN [objs |-> <<>>, jobs |-> <<>>]
    ELSE LET content == ContentFromJson(doc[i])
             rest == LoadItems(doc, i + 1, base, t)
         IN  [objs |-> <<content>> \o rest.objs,
              jobs |-> RearmPosts(base + i, content.scheduled_posts, 1, t) \o rest.jobs]

load_library(doc, heap, t) == LoadItems(doc, 1, Len(heap), t)

---------------------------------------------------------------------------
(* Objects that neither the library nor a job refers to are freed: the heap *)
(* is compacted, keeping the order of the live objects.                     *)
LiveObjs(lib, js) == {lib[i] : i \in 1..Len(lib)} \cup {js[i].content : i \in 1..Len(js)}
Rank(live, id) == Cardinality({x \in live : x <= id})
ObjAt(live, n) == CHOOSE id \in live : Rank(live, id) = n

Compact(heap, lib, js, pub) ==
    LET live == LiveObjs(lib, js) IN
    [objs |-> [n \in 1..Cardinality(live) |-> heap[ObjAt(live, n)]],
     content_library |-> [i \in 1..Len(lib) |-> Rank(live, lib[i])],
     jobs |-> [i \in 1..Len(js) |-> [js[i] EXCEPT !.content = Rank(live, js[i].content)]],
     published |-> [r \in {<<Rank(live, q[1]), q[2]>> : q \in {q \in DOMAIN pub : q[1] \in live}} |->
                       pub[<<ObjAt(live, r[1]), r[2]>>]]]

---------------------------------------------------------------------------
Init ==
    /\ now \in {s \in ClockPoints : DayOf(s) = 0}
    /\ objs = <<>>
    /\ content_library = <<>>
    /\ jobs = <<>>
    /\ file = NoFile
    /\ published = [r \in {} |-> 0]
    /\ scheduler_alive = TRUE
    /\ saved_library = <<>>
    /\ last_op = Op("init")
    /\ caller = Idle

(* the wall clock moves on to its next observed point; the points are more  *)
(* than the 60 seconds of the scheduler's sleep apart, so a live scheduler  *)
(* has run what is due before the next point is reached                     *)
Tick ==
    /\ \E t \in ClockPoints : t > now
    /\ ~scheduler_alive \/ DueJobs(jobs, now) = {}
    /\ now' = SetMin({t \in ClockPoints : t > now})
    /\ last_op' = Op("tick")
    /\ UNCHANGED <<caller, objs, content_library, jobs, file, published, scheduler_alive,
                   saved_library>>

\* variant: the record is appended without the duplicate check
ProcessUrlUnchecked(url, language, ai_ok) ==
    LET extracted == extract_content(url)
        posts == generate_platform_posts(extracted.content, extracted.title, language, ai_ok)
        keywords == extract_keywords(extracted.content, ai_ok)
        content == Content(url, extracted.title, <<extracted.content, "...">>,
                           posts, keywords, language)
    IN  /\ Len(objs) < MaxObjs
        /\ objs' = Append(objs, content)
        /\ content_library' = Append(content_library, Len(objs) + 1)
        /\ last_op' = Op("process_url")
        /\ UNCHANGED <<caller, now, jobs, file, published, scheduler_alive, saved_library>>

(* process_url *)
ProcessUrl(url, language, ai_ok) ==
    LET extracted == extract_content(url) IN
    /\ IF is_duplicate(Library, extracted.title, language)
       THEN /\ last_op' = [Op("process_url") EXCEPT !.ok = FALSE]
            /\ UNCHANGED <<objs, content_library>>
       ELSE LET posts == generate_platform_posts(extracted.content, extracted.title, language, ai_ok)
                keywords == extract_keywords(extracted.content, ai_ok)
                content == Content(url, extracted.title, <<extracted.content, "...">>,
                                   posts, keywords, language)
            IN  /\ Len(objs) < MaxObjs
                /\ objs' = Append(objs, content)
                /\ content_library' = Append(content_library, Len(objs) + 1)
                /\ last_op' = Op("process_url")
    /\ UNCHANGED <<caller, now, jobs, file, published, scheduler_alive, saved_library>>

(* main, choice 3: the range checks on the hour and the minute typed *)
\* variant: the upper limit of the hour off by one
HourValidUpTo24(hour) == ~(hour < 0 \/ hour > 24)

HourValid(hour) == ~(hour < 0 \/ hour > 23)
MinuteValid(minute) == ~(minute < 0 \/ minute > 59)

(* main, choice 3: the menu validates platform, hour and minute, rolls the  *)
(* time forward when it has passed, and calls schedule_post.  late is the   *)
(* time that passes between the two reads of the clock.                     *)
MenuSchedule(idx, platform, hour, minute, late) ==
    /\ idx \in 1..Len(content_library)
    /\ Len(jobs) < MaxJobs
    /\ LET c == content_library[idx]
           platform_ok == platform \in DOMAIN objs[c].platform_posts
           hour_ok == HourValid(hour)
           valid == platform_ok /\ hour_ok /\ MinuteValid(minute)
           today == ReplaceHM(now, hour, minute)
           scheduled_time == IF today < now + late THEN today + Day ELSE today
           r == schedule_post(objs, jobs, c, platform, scheduled_time, now)
       IN  \* an input the menu never gets to read is not part of the operation
           /\ last_op' = [Op("menu_schedule") EXCEPT !.rec = c, !.platform = platform,
                              !.hour = IF platform_ok THEN hour ELSE 0,
                              !.minute = IF platform_ok /\ hour_ok THEN minute ELSE 0,
                              !.ok = valid]
           /\ IF valid
              THEN objs' = r.objs /\ jobs' = r.jobs
              ELSE UNCHANGED <<objs, jobs>>
    /\ UNCHANGED <<caller, now, content_library, file, published, scheduler_alive, saved_library>>

(* schedule_post called directly with a timestamp *)
SchedulePost(idx, platform, scheduled_time) ==
    /\ idx \in 1..Len(content_library)
    /\ Len(jobs) < MaxJobs
    /\ LET c == content_library[idx]
           r == schedule_post(objs, jobs, c, platform, scheduled_time, now)
       IN  /\ last_op' = [Op("schedule_post") EXCEPT !.rec = c, !.platform = platform,
                              !.ok = r.ok]
           /\ objs' = r.objs
           /\ jobs' = r.jobs
    /\ UNCHANGED <<caller, now, content_library, file, published, scheduler_alive, saved_library>>

(* one pass of the scheduler thread's loop *)
Poll ==
    /\ scheduler_alive
    /\ \E oc \in [DueJobs(jobs, now) -> Outcomes] :
       \E r \in {run_pending(oc)} :
         /\ objs' = r.objs
         /\ file' = r.file
         /\ published' = r.published
         /\ jobs' = r.jobs
         /\ scheduler_alive' = r.alive
         /\ saved_library' = r.saved
         /\ last_op' = [Op("poll") EXCEPT !.fired = r.fired]
    /\ UNCHANGED <<caller, now, content_library>>

(* main, choice 5 *)
Save ==
    /\ file' = FileOf(save_library(Library))
    /\ saved_library' = Library
    /\ last_op' = Op("save")
    /\ UNCHANGED <<caller, now, objs, content_library, jobs, published, scheduler_alive>>

\* variant: the collection is emptied before the file is opened
LoadClearingFirst ==
    /\ IF ~file.exists
       THEN LET g == Compact(objs, <<>>, jobs, published) IN
            /\ last_op' = [Op("load") EXCEPT !.ok = FALSE]
            /\ objs' = g.objs
            /\ content_library' = g.content_library
            /\ jobs' = g.jobs
            /\ published' = g.published
       ELSE LET r == load_library(file.doc, objs, now)
                g == Compact(objs \o r.objs, [i \in 1..Len(r.objs) |-> Len(objs) + i],
                             jobs \o r.jobs, published)
            IN  /\ Len(g.objs) <= MaxObjs
                /\ Len(g.jobs) <= MaxJobs
                /\ objs' = g.objs
                /\ content_library' = g.content_library
                /\ jobs' = g.jobs
                /\ published' = g.published
                /\ last_op' = Op("load")
    /\ UNCHANGED <<caller, now, file, scheduler_alive, saved_library>>

(* load_library *)
Load ==
    /\ IF ~file.exists
       THEN /\ last_op' = [Op("load") EXCEPT !.ok = FALSE]
            /\ UNCHANGED <<objs, content_library, jobs, published>>
       ELSE LET r == load_library(file.doc, objs, now)
                g == Compact(objs \o r.objs, [i \in 1..Len(r.objs) |-> Len(objs) + i],
                             jobs \o r.jobs, published)
            IN  /\ Len(g.objs) <= MaxObjs
                /\ Len(g.jobs) <= MaxJobs
                /\ objs' = g.objs
                /\ content_library' = g.content_library
                /\ jobs' = g.jobs
                /\ published' = g.published
                /\ last_op' = Op("load")
    /\ UNCHANGED <<caller, now, file, scheduler_alive, saved_library>>

\* variant: the library is emptied also when os.remove fails
DeleteClearingAnyway(os_error) ==
    /\ LET g == Compact(objs, <<>>, jobs, published) IN
         /\ objs' = g.objs
         /\ content_library' = g.content_library
         /\ jobs' = g.jobs
         /\ published' = g.published
    /\ IF file.exists /\ os_error
       THEN /\ last_op' = [Op("delete") EXCEPT !.ok = FALSE]
            /\ UNCHANGED <<file, saved_library>>
       ELSE /\ file' = NoFile
            /\ saved_library' = <<>>
            /\ last_op' = Op("delete")
    /\ UNCHANGED <<caller, now, scheduler_alive>>

(* delete_json_and_clear; os_error is os.remove failing on an existing file *)
DeleteJsonAndClear(os_error) ==
    /\ IF file.exists /\ os_error
       THEN /\ last_op' = [Op("delete") EXCEPT !.ok = FALSE]
            /\ UNCHANGED <<file, objs, content_library, jobs, published, saved_library>>
       ELSE LET g == Compact(objs, <<>>, jobs, published) IN
            /\ file' = NoFile
            /\ saved_library' = <<>>
            /\ objs' = g.objs
            /\ content_library' = g.content_library
            /\ jobs' = g.jobs
            /\ published' = g.published
            /\ last_op' = Op("delete")
    /\ UNCHANGED <<caller, now, scheduler_alive>>

Next ==
    \/ Tick
    \/ \E in \in ProcessInputs : ProcessUrl(in[1], in[2], in[3])
    \/ \E idx \in 1..MaxObjs, platform \in MenuPlatforms, hm \in MenuTimes, late \in {0, 1} :
          MenuSchedule(idx, platform, hm[1], hm[2], late)
    \/ \E idx \in 1..MaxObjs, platform \in DirectPlatforms :
          SchedulePost(idx, platform, DirectTime)
    \/ Poll
    \/ Save
    \/ Load
    \/ \E os_error \in BOOLEAN : DeleteJsonAndClear(os_error)

Spec == Init /\ [][Next]_vars

---------------------------------------------------------------------------
---------------------------------------------------------------------------
(* Scheduling alone, with valid menu input.  The scheduler thread loops for  *)
(* ever (run_pending, then sleep 60 s) and the clock keeps moving: both     *)
(* steps are taken when they stay enabled.                                  *)
LiveTimes == {hm \in MenuTimes : HourValid(hm[1]) /\ MinuteValid(hm[2])}

NextLive ==
    \/ Tick
    \/ \E in \in ProcessInputs : ProcessUrl(in[1], in[2], in[3])
    \/ \E idx \in 1..MaxObjs, hm \in LiveTimes, late \in {0, 1} :
          MenuSchedule(idx, "x", hm[1], hm[2], late)
    \/ Poll
    \/ DeleteJsonAndClear(FALSE)

SpecLive == Init /\ [][NextLive]_vars /\ WF_vars(Poll) /\ WF_vars(Tick)

---------------------------------------------------------------------------
(* The library alone: process_url with every url and language, and the      *)
(* file operations.                                                         *)
LibInputs == {<<u, l, TRUE>> : u \in Urls, l \in Languages}

NextLib ==
    \/ \E in \in LibInputs : ProcessUrl(in[1], in[2], in[3])
    \/ Save
    \/ Load
    \/ \E os_error \in BOOLEAN : DeleteJsonAndClear(os_error)

SpecLib == Init /\ [][NextLib]_vars

(* Two different records, scheduling and persistence together.              *)
RecordInputs == {<<"u1", "en", TRUE>>, <<"u3", "en", TRUE>>}

NextRecords ==
    \/ Tick
    \/ \E in \in RecordInputs : ProcessUrl(in[1], in[2], in[3])
    \/ \E idx \in 1..MaxObjs : MenuSchedule(idx, "x", 23, 59, 0)
    \/ Poll
    \/ Save
    \/ Load
    \/ \E os_error \in BOOLEAN : DeleteJsonAndClear(os_error)

SpecRecords == Init /\ [][NextRecords]_vars

---------------------------------------------------------------------------
(* The two threads.  Nothing in the file locks the library, so a pass of    *)
(* the scheduler thread can run between two statements of the caller       *)
(* thread: load_library is taken in steps (the file read and the list      *)
(* replaced; one item appended and re-armed; the return), and               *)
(* delete_json_and_clear in two (os.remove; the list replaced).             *)
LoadOpen ==
    /\ caller = Idle
    /\ file.exists
    /\ LET g == Compact(objs, <<>>, jobs, published) IN
         /\ objs' = g.objs
         /\ content_library' = g.content_library
         /\ jobs' = g.jobs
         /\ published' = g.published
    /\ caller' = [pc |-> "load", doc |-> file.doc, next |-> 1]
    /\ last_op' = Op("load_open")
    /\ UNCHANGED <<now, file, scheduler_alive, saved_library>>

LoadItem ==
    /\ caller.pc = "load"
    /\ caller.next <= Len(caller.doc)
    /\ Len(objs) < MaxObjs
    /\ LET r == load_library(<<caller.doc[caller.next]>>, objs, now) IN
         /\ Len(jobs) + Len(r.jobs) <= MaxJobs
         /\ objs' = objs \o r.objs
         /\ content_library' = Append(content_library, Len(objs) + 1)
         /\ jobs' = jobs \o r.jobs
    /\ caller' = [caller EXCEPT !.next = caller.next + 1]
    /\ last_op' = Op("load_item")
    /\ UNCHANGED <<now, file, published, scheduler_alive, saved_library>>

LoadReturn ==
    /\ caller.pc = "load"
    /\ caller.next > Len(caller.doc)
    /\ caller' = Idle
    /\ last_op' = Op("load")
    /\ UNCHANGED <<now, objs, content_library, jobs, file, published, scheduler_alive,
                   saved_library>>

DeleteRemove ==
    /\ caller = Idle
    /\ file' = NoFile
    /\ saved_library' = <<>>
    /\ caller' = [Idle EXCEPT !.pc = "delete"]
    /\ last_op' = Op("delete_remove")
    /\ UNCHANGED <<now, objs, content_library, jobs, published, scheduler_alive>>

DeleteClear ==
    /\ caller.pc = "delete"
    /\ LET g == Compact(objs, <<>>, jobs, published) IN
         /\ objs' = g.objs
         /\ content_library' = g.content_library
         /\ jobs' = g.jobs
         /\ published' = g.published
    /\ caller' = Idle
    /\ last_op' = Op("delete")
    /\ UNCHANGED <<now, file, scheduler_alive, saved_library>>

NextRace ==
    \/ Tick
    \/ caller = Idle /\ \E in \in ProcessInputs : ProcessUrl(in[1], in[2], in[3])
    \/ caller = Idle /\ \E idx \in 1..MaxObjs, hm \in LiveTimes, late \in {0, 1} :
                            MenuSchedule(idx, "x", hm[1], hm[2], late)
    \/ Poll
    \/ caller = Idle /\ Save
    \/ LoadOpen
    \/ LoadItem
    \/ LoadReturn
    \/ DeleteRemove
    \/ DeleteClear

SpecRace == Init /\ [][NextRace]_vars

---------------------------------------------------------------------------
---------------------------------------------------------------------------
(* Properties *)
Posts(c) == {c.scheduled_posts[k] : k \in 1..Len(c.scheduled_posts)}
core == <<objs, content_library, jobs, file, published, scheduler_alive>>

\* C1: for every record of the library, posted is true exactly when the record
\* has at least one Scheduled Post and all of them are posted.
C1_AggregateCorrect ==
    \A i \in 1..Len(Library) :
        Library[i].posted <=>
            (Len(Library[i].scheduled_posts) > 0 /\ \A q \in Posts(Library[i]) : q.posted)

\* C2: a pass of the scheduler that dispatches only Scheduled Posts that were
\* already posted changes nothing: no field, no publish, no save.
C2_RepeatDispatchIsNoOp ==
    [][(/\ last_op'.op = "poll"
        /\ last_op'.fired # <<>>
        /\ \A n \in 1..Len(last_op'.fired) :
              last_op'.fired[n].posted_before /\ last_op'.fired[n].outcome = "ok")
       => (objs' = objs /\ file' = file /\ published' = published)]_vars

\* C3: the publish side effect happens at most once for each Scheduled Post.
C3_PublishedAtMostOnce ==
    \A r \in DOMAIN published : published[r] <= 1

\* C4 as stated: a dispatch that fails at any step leaves the post's flag and
\* the record's flag as they were.
C4_AnyFailureLeavesFlags ==
    last_op.op = "poll" =>
        \A n \in 1..Len(last_op.fired) :
            last_op.fired[n].outcome # "ok" =>
                /\ last_op.fired[n].posted_after = last_op.fired[n].posted_before
                /\ last_op.fired[n].rec_after = last_op.fired[n].rec_before

\* C4 amended: a dispatch whose publish step fails leaves the post's flag and
\* the record's flag as they were; one whose save fails has the post's flag
\* set in memory; either way the failure is caught: the scheduler thread
\* lives and the pass has run every due job.
C4_FailureIsCaught ==
    /\ scheduler_alive
    /\ last_op.op = "poll" =>
        /\ DueJobs(jobs, now) = {}
        /\ \A n \in 1..Len(last_op.fired) :
              /\ last_op.fired[n].outcome = "publish_fails" =>
                    /\ last_op.fired[n].posted_after = last_op.fired[n].posted_before
                    /\ last_op.fired[n].rec_after = last_op.fired[n].rec_before
              /\ last_op.fired[n].outcome = "save_fails" => last_op.fired[n].posted_after

C4_Witness ==
    /\ last_op.op = "poll"
    /\ Len(last_op.fired) = 2
    /\ last_op.fired[1].outcome = "publish_fails"
    /\ ~last_op.fired[1].posted_after
    /\ last_op.fired[2].outcome = "ok"
    /\ last_op.fired[2].posted_after

\* C5: schedule_post with a platform that is no key of the record's
\* platform_posts changes nothing.
C5_UnknownPlatformRejected ==
    [][(/\ last_op'.op = "schedule_post"
        /\ last_op'.platform \notin DOMAIN objs[last_op'.rec].platform_posts)
       => UNCHANGED core]_vars

C5_Witness ==
    /\ last_op.op = "schedule_post"
    /\ last_op.platform = "tiktok"
    /\ ~last_op.ok
    /\ Len(objs[last_op.rec].scheduled_posts) > 0

\* C6: at the menu an hour outside 0..23 or a minute outside 0..59 changes
\* nothing; an hour in 0..23 with a minute in 0..59 (on a platform of the
\* record) adds exactly one Scheduled Post to the record and arms exactly one
\* trigger, for that post at that hour and minute.
C6_MenuValidation ==
    [][last_op'.op = "menu_schedule" =>
        LET c == last_op'.rec
            h == last_op'.hour
            m == last_op'.minute
        IN  IF h \in 0..23 /\ m \in 0..59
               /\ last_op'.platform \in DOMAIN objs[c].platform_posts
            THEN /\ Len(objs') = Len(objs)
                 /\ \A d \in 1..Len(objs) : d # c => objs'[d] = objs[d]
                 /\ Len(objs'[c].scheduled_posts) = Len(objs[c].scheduled_posts) + 1
                 /\ SubSeq(objs'[c].scheduled_posts, 1, Len(objs[c].scheduled_posts))
                       = objs[c].scheduled_posts
                 /\ Len(jobs') = Len(jobs) + 1
                 /\ SubSeq(jobs', 1, Len(jobs)) = jobs
                 /\ jobs'[Len(jobs')].content = c
                 /\ jobs'[Len(jobs')].post = Len(objs'[c].scheduled_posts)
                 /\ jobs'[Len(jobs')].at = h * Hour + m * Minute
            ELSE UNCHANGED core]_vars

C6_Witness ==
    /\ last_op.op = "menu_schedule"
    /\ last_op.ok
    /\ last_op.hour = 0
    /\ last_op.minute = 0

\* C7: after a load that found the file, the library equals, field for
\* field and in order, the library as it was when the file was written; and
\* saving and loading any two records the process holds, as a list, gives
\* back the two in the same order.
C7_RoundTrip ==
    /\ (last_op.op = "load" /\ last_op.ok) => Library = saved_library
    /\ \A i, j \in 1..Len(objs) :
          load_library(save_library(<<objs[i], objs[j]>>), <<>>, now).objs
              = <<objs[i], objs[j]>>

C7_Witness ==
    /\ last_op.op = "load"
    /\ last_op.ok
    /\ \E i \in 1..Len(Library) :
          /\ Library[i].posted
          /\ \E q \in Posts(Library[i]) : q.posted /\ q.scheduled_time % Minute # 0
    /\ \E i, j \in 1..Len(objs) : objs[i] # objs[j]

\* C8: the triggers a load arms are exactly one for each loaded Scheduled
\* Post that is unposted and whose scheduled_time is later than the time of
\* loading, each bound to the loaded record and post.
C8_LoadRearms ==
    [][(last_op'.op = "load" /\ last_op'.ok) =>
        LET armed == SubSeq(jobs', Len(jobs) + 1, Len(jobs'))
            loaded == UNION {{<<content_library'[i], k>> :
                                 k \in 1..Len(objs'[content_library'[i]].scheduled_posts)} :
                             i \in 1..Len(content_library')}
            due == {ck \in loaded :
                      /\ ~objs'[ck[1]].scheduled_posts[ck[2]].posted
                      /\ objs'[ck[1]].scheduled_posts[ck[2]].scheduled_time > now}
        IN  /\ Len(jobs') >= Len(jobs)
            /\ {<<armed[n].content, armed[n].post>> : n \in 1..Len(armed)} = due
            /\ Len(armed) = Cardinality(due)
            /\ \A n \in 1..Len(armed) :
                  armed[n].at = AtTime(StrfHM(
                      objs'[armed[n].content].scheduled_posts[armed[n].post].scheduled_time))
            /\ \A n \in 1..Len(jobs) :
                  jobs'[n].content \notin {content_library'[i] : i \in 1..Len(content_library')}]_vars

C8_Witness ==
    /\ last_op.op = "load"
    /\ last_op.ok
    /\ \E n \in 1..Len(jobs) :
          /\ jobs[n].content \in {content_library[i] : i \in 1..Len(content_library)}
          /\ ~objs[jobs[n].content].scheduled_posts[jobs[n].post].posted
          /\ objs[jobs[n].content].scheduled_posts[jobs[n].post].scheduled_time > now

\* C9 as stated: after a load that finds no file the library is empty.
C9_MissingFileEmpties ==
    (last_op.op = "load" /\ ~last_op.ok) => content_library = <<>>

\* C9 amended: a load that finds no file returns and leaves the library, and
\* everything else, as it was.
C9_MissingFileKeeps ==
    [][(last_op'.op = "load" /\ ~last_op'.ok) => UNCHANGED core]_vars

C9_Witness ==
    /\ last_op.op = "load"
    /\ ~last_op.ok
    /\ Len(content_library) > 0

\* C10: is_duplicate(title, language) is true exactly when a record of the
\* library has the same title up to the case of its letters and the very same
\* language.
CasePairs == {<<"N", "n">>, <<"E", "e">>, <<"O", "o">>}
SameIgnoringCase(a, b) ==
    /\ Len(a) = Len(b)
    /\ \A k \in 1..Len(a) :
          a[k] = b[k] \/ <<a[k], b[k]>> \in CasePairs \/ <<b[k], a[k]>> \in CasePairs

C10_IsDuplicate ==
    \A title \in Titles \cup {<<"n", "e">>, <<"N">>}, language \in Languages :
        is_duplicate(Library, title, language) <=>
            \E i \in 1..Len(Library) :
                /\ SameIgnoringCase(Library[i].title, title)
                /\ Library[i].language = language

C10_Witness ==
    /\ last_op.op = "process_url"
    /\ ~last_op.ok
    /\ \E i \in 1..Len(Library) :
          Library[i].title = <<"N", "e">> /\ Library[i].language = "en"
    /\ is_duplicate(Library, <<"N", "E">>, "en")
    /\ ~is_duplicate(Library, <<"N", "e">>, "ro")

\* C11: a process_url whose extracted title matches a record of the library
\* up to case, in the same language, returns nothing and changes nothing; any
\* other process_url appends exactly one record at the end, unposted and with
\* no Scheduled Posts; and no two records of the library have the same
\* lower-cased title and the same language.
C11_ProcessUrl ==
    /\ [](\A i, j \in 1..Len(Library) :
             (/\ Lower(Library[i].title) = Lower(Library[j].title)
              /\ Library[i].language = Library[j].language) => i = j)
    /\ [][\A in \in LibInputs :
            ProcessUrl(in[1], in[2], in[3]) =>
                IF \E i \in 1..Len(Library) :
                      /\ SameIgnoringCase(Library[i].title, extract_content(in[1]).title)
                      /\ Library[i].language = in[2]
                THEN ~last_op'.ok /\ UNCHANGED core
                ELSE /\ last_op'.ok
                     /\ Len(Library') = Len(Library) + 1
                     /\ SubSeq(Library', 1, Len(Library)) = Library
                     /\ Library'[Len(Library')].url = in[1]
                     /\ Library'[Len(Library')].title = extract_content(in[1]).title
                     /\ Library'[Len(Library')].language = in[2]
                     /\ ~Library'[Len(Library')].posted
                     /\ Library'[Len(Library')].scheduled_posts = <<>>
                     /\ UNCHANGED <<jobs, file, published, scheduler_alive>>]_vars

C11_Witness ==
    /\ last_op.op = "process_url"
    /\ ~last_op.ok
    /\ Len(Library) = 2
    /\ Library[1].title = <<"N", "e">>
    /\ Library[2].title = <<"N", "e">>
    /\ Library[1].language # Library[2].language


\* C12: a post scheduled at the menu for an hour:minute that has already
\* passed today is stored with that hour:minute on the next day, any other
\* with that hour:minute today; and the stored scheduled_time is not earlier
\* than the moment of scheduling (which lies between the two reads of the
\* clock) and less than one day after it.
C12_RollForward ==
    [][(last_op'.op = "menu_schedule" /\ last_op'.ok) =>
        LET c == last_op'.rec
            posts == objs'[c].scheduled_posts
            st == posts[Len(posts)].scheduled_time
            asked == DayOf(now) * Day + last_op'.hour * Hour + last_op'.minute * Minute
        IN  /\ StrfHM(st) = <<last_op'.hour, last_op'.minute>>
            /\ DayOf(st) = IF asked < now THEN DayOf(now) + 1 ELSE DayOf(now)
            /\ \E moment \in now..(now + 1) : st >= moment /\ st < moment + Day]_vars


\* C13: after every dispatch that succeeds the file holds the serialization
\* of the whole library as it is in memory at the end of that dispatch, and
\* in it the dispatched Scheduled Post with posted = true.
C13_DispatchPersists ==
    last_op.op = "poll" =>
        \A n \in 1..Len(last_op.fired) :
            LET ev == last_op.fired[n] IN
            ev.outcome = "ok" =>
                /\ ev.file_after = FileOf(save_library(ev.library_after))
                /\ \E i \in 1..Len(content_library) :
                      /\ content_library[i] = ev.content
                      /\ ev.library_after[i].scheduled_posts[ev.post].posted
                      /\ ev.library_after[i].posted = ev.rec_after

\* C13 without the triggers of records that have left the library: the file
\* holds the serialization of the library at the end of the dispatch.
C13_FileIsLibrary ==
    last_op.op = "poll" =>
        \A n \in 1..Len(last_op.fired) :
            LET ev == last_op.fired[n] IN
            ev.outcome = "ok" => ev.file_after = FileOf(save_library(ev.library_after))


\* C14: no operation removes a trigger or changes the hour:minute, the record
\* or the post it was armed for; a pass of the scheduler runs every trigger
\* that is due, posted or not, and leaves it due again at the same
\* hour:minute one day later.
C14_TriggerRecurs ==
    [][/\ Len(jobs') >= Len(jobs)
       /\ \A n \in 1..Len(jobs) :
             /\ jobs'[n].at = jobs[n].at
             /\ jobs'[n].post = jobs[n].post
             /\ objs'[jobs'[n].content].url = objs[jobs[n].content].url
             /\ objs'[jobs'[n].content].language = objs[jobs[n].content].language
             /\ jobs'[n].next_run \in {jobs[n].next_run, jobs[n].next_run + Day}
             /\ TimeOfDay(jobs'[n].next_run) = jobs[n].at
       /\ last_op'.op = "poll" =>
             /\ {<<last_op'.fired[k].content, last_op'.fired[k].post>> :
                    k \in 1..Len(last_op'.fired)}
                  = {<<jobs[n].content, jobs[n].post>> : n \in DueJobs(jobs, now)}
             /\ \A n \in DueJobs(jobs, now) :
                   /\ jobs'[n].next_run = jobs[n].next_run + Day
                   /\ jobs'[n].next_run > now]_vars

C14_Witness ==
    /\ last_op.op = "poll"
    /\ \E k \in 1..Len(last_op.fired) :
          /\ last_op.fired[k].posted_before
          /\ last_op.fired[k].content \notin {content_library[i] : i \in 1..Len(content_library)}
          /\ \E n \in 1..Len(jobs) :
                /\ jobs[n].content = last_op.fired[k].content
                /\ jobs[n].post = last_op.fired[k].post
                /\ jobs[n].next_run > now


\* C15: every trigger that is due at a time within the horizon is eventually
\* run by the scheduler, when that time has come; a pass leaves no trigger
\* due, and a dispatch that succeeds has the post marked posted.
RunTimes == {d * Day + AtTime(hm) : d \in 0..MaxDay, hm \in LiveTimes}

C15_EventuallyDispatched ==
    /\ [][last_op'.op = "poll" =>
            /\ DueJobs(jobs', now') = {}
            /\ Len(last_op'.fired) = Cardinality(DueJobs(jobs, now))
            /\ \A k \in 1..Len(last_op'.fired) :
                  last_op'.fired[k].outcome = "ok" => last_op'.fired[k].posted_after]_vars
    /\ \A t \in RunTimes :
          (\E n \in 1..Len(jobs) : jobs[n].next_run = t)
              ~> (now >= t /\ \A n \in 1..Len(jobs) : jobs[n].next_run # t)

C15_Witness ==
    /\ last_op.op = "poll"
    /\ Len(last_op.fired) = 2
    /\ last_op.fired[1].outcome = "ok"
    /\ last_op.fired[1].posted_after
    /\ ~last_op.fired[1].posted_before
    /\ DayOf(now) = 1


\* C16: a pass of the scheduler dispatches only while the caller thread is
\* between operations, and when delete_json_and_clear has returned the file
\* does not exist.
C16_MutualExclusion ==
    /\ (last_op.op = "poll" /\ last_op.fired # <<>>) => caller = Idle
    /\ last_op.op = "delete" => ~file.exists


\* C17 as stated: process_url, schedule_post, dispatch, save and load keep
\* every record of the library, in order; only delete-and-clear removes
\* records, and after it the library is empty and there is no file.
Key(r) == <<r.url, r.language>>
KeysOf(library) == [i \in 1..Len(library) |-> Key(library[i])]
IsPrefix(a, b) == Len(a) <= Len(b) /\ SubSeq(b, 1, Len(a)) = a

C17_AppendOnly ==
    [][/\ last_op'.op # "delete" => IsPrefix(KeysOf(Library), KeysOf(Library'))
       /\ last_op'.op = "delete" => (content_library' = <<>> /\ ~file'.exists)]_vars

\* C17 amended: process_url, schedule_post, dispatch, save and a load that
\* finds no file keep every record, in order; a load that finds the file
\* replaces the library by the records of the file, in the file's order; a
\* delete-and-clear empties the library and leaves no file, unless removing
\* the file fails, and then it changes nothing.
C17_AppendOnlyButLoad ==
    [][/\ (last_op'.op \notin {"load", "delete"} \/ (last_op'.op = "load" /\ ~last_op'.ok))
            => IsPrefix(KeysOf(Library), KeysOf(Library'))
       /\ (last_op'.op = "load" /\ last_op'.ok)
            => KeysOf(Library') = KeysOf(saved_library)
       /\ (last_op'.op = "delete" /\ last_op'.ok)
            => (content_library' = <<>> /\ ~file'.exists)
       /\ (last_op'.op = "delete" /\ ~last_op'.ok)
            => (file.exists /\ UNCHANGED core)]_vars

C17_Witness ==
    /\ last_op.op = "load"
    /\ last_op.ok
    /\ KeysOf(Library) = <<<<"u3", "en">>>>
    /\ \E n \in 1..Len(jobs) :
          /\ jobs[n].content \notin {content_library[i] : i \in 1..Len(content_library)}
          /\ objs[jobs[n].content].url = "u1"


\* C18: every Scheduled Post of every record has a platform that is a key of
\* the record's platform_posts and a content equal to the record's text for
\* that platform; and the post a schedule_post adds is unposted.
C18_PostsMatchOwner ==
    /\ [](\A c \in 1..Len(objs) : \A q \in Posts(objs[c]) :
             /\ q.platform \in DOMAIN objs[c].platform_posts
             /\ q.content = objs[c].platform_posts[q.platform])
    /\ [][(last_op'.op \in {"menu_schedule", "schedule_post"} /\ last_op'.ok) =>
            LET posts == objs'[last_op'.rec].scheduled_posts IN
            /\ Len(posts) = Len(objs[last_op'.rec].scheduled_posts) + 1
            /\ posts[Len(posts)].platform = last_op'.platform
            /\ ~posts[Len(posts)].posted]_vars

C18_Witness ==
    /\ last_op.op = "load"
    /\ last_op.ok
    /\ \E i \in 1..Len(Library) :
          /\ Len(Library[i].scheduled_posts) = 2
          /\ Library[i].scheduled_posts[1].platform = "x"
          /\ Library[i].scheduled_posts[1].posted
          /\ Library[i].scheduled_posts[2].platform = "linkedin"
          /\ Library[i].scheduled_posts[2].content = Library[i].platform_posts["linkedin"]


\* C19: every trigger refers to a record that is in the library and to one of
\* that record's Scheduled Posts, and every dispatch of a pass is for a
\* record that is in the library.
InLibrary(c) == \E i \in 1..Len(content_library) : content_library[i] = c

C19_TriggersInLibrary ==
    /\ \A n \in 1..Len(jobs) :
          /\ InLibrary(jobs[n].content)
          /\ jobs[n].post \in 1..Len(objs[jobs[n].content].scheduled_posts)
    /\ last_op.op = "poll" =>
          \A k \in 1..Len(last_op.fired) : InLibrary(last_op.fired[k].content)


\* C20: a pass of the scheduler dispatches a Scheduled Post only when the
\* clock has reached the post's stored scheduled_time.
C20_NotBeforeScheduledTime ==
    last_op.op = "poll" =>
        \A k \in 1..Len(last_op.fired) :
            objs[last_op.fired[k].content].scheduled_posts[last_op.fired[k].post].scheduled_time
                <= now

====
